---------------------------- MODULE Spec2Model ----------------------------
(***************************************************************************)
(* Task orchestration of the OpenNode Forge API.                           *)
(*                                                                         *)
(* Two FastAPI applications are modelled, each with its own in-memory      *)
(* task store:                                                             *)
(*   - src/api/main.py: the generation, analysis and publish families,     *)
(*     each a dict keyed by task id, a background coroutine per task that  *)
(*     awaits one subprocess, the status endpoints and the cleanup sweep;  *)
(*   - src/api/routers/generate.py: the progress-reporting generation      *)
(*     path (GenerationStatus records, update_task_status, result cache).  *)
(*                                                                         *)
(* Both run on a cooperative event loop: a coroutine is suspended only at  *)
(* an await, so every action below is one await-free segment of a handler  *)
(* or of a background coroutine, with all the updates the segment makes.   *)
(*                                                                         *)
(* Optional values (a dict key that may be missing, an Optional field) are *)
(* sets with at most one element: {} is "missing / None", {v} is v.        *)
(* A Python dict payload is a set of <<key, value>> pairs.                 *)
(* Immutable request data that no transition reads (config, command,       *)
(* started_at, package_path, registry, created_at) is left out of the      *)
(* records.                                                                *)
(*                                                                         *)
(* Specifications: MainSpec (the task endpoints of main.py), RouterSpec    *)
(* (routers/generate.py), Spec (both side by side), MainFairSpec (MainSpec *)
(* with the event loop's fairness), SyncSpec (main.py with its synchronous *)
(* optimize and template endpoints) and WorkerSpec (the status endpoint of *)
(* one router worker whose store holds only some of the polled ids).       *)
(***************************************************************************)
EXTENDS Integers, Sequences, FiniteSets, TLC

\* ---------------------------------------------------------------- bounds
\* Number of task ids the id generator can hand out in one behaviour.
MaxTasks == 2
\* The clock runs from 0 to MaxTime; one tick is one hour.
MaxTime == 2

Ids == 1..MaxTasks

VARIABLES
    generation_tasks,   \* main.py: generation_tasks dict
    analysis_tasks,     \* main.py: analysis_tasks dict
    publish_tasks,      \* main.py: publish_tasks dict
    router_tasks,       \* routers/generate.py: generation_tasks dict
    cache,              \* cache_manager: key -> entry (value, expiry)
    pc,                 \* per task id: where its background coroutine stands
    proc,               \* per task id: outcome of its subprocess once it ended
    args,               \* per task id: arguments bound by add_task
    now,                \* datetime.utcnow(), in hours
    uuid_count,         \* number of uuid4() draws so far
    returned,           \* <<family, id>> of every accepted submit, in order
    lastPoll,           \* the latest status response sent to a client
    responses,          \* per id drawn: the request that drew it and the
                        \* synchronous response it was given
    template_response   \* the latest response of POST /api/v1/templates/{id}

vars == <<generation_tasks, analysis_tasks, publish_tasks, router_tasks, cache,
          pc, proc, args, now, uuid_count, returned, lastPoll, responses,
          template_response>>

mainVars == <<generation_tasks, analysis_tasks, publish_tasks>>
routerVars == <<router_tasks, cache>>

\* ------------------------------------------------------------ data values
None == {}
Some(v) == {v}
The(opt) == CHOOSE v \in opt : TRUE

EmptyStore == [x \in {} |-> {}]
Put(tasks, id, rec) == (id :> rec) @@ tasks
Drop(tasks, ids) == [x \in (DOMAIN tasks) \ ids |-> tasks[x]]
Range(s) == {s[i] : i \in DOMAIN s}

\* What the operating system can report for one launch of an executable:
\* exc is the description of an exception raised by create_subprocess_exec,
\* communicate or decode ("" when none is raised); written is the listing of
\* the output directory the process leaves behind.
Outcome(exc, returncode, stdout, stderr, written) ==
    [exc |-> exc, returncode |-> returncode, stdout |-> stdout,
     stderr |-> stderr, written |-> written]

ValidJson == "{\"qualityScore\": 9}"
\* The executable cannot be started: there is no exit code, and run_node_command
\* reads none of the other fields once exc is set.
LaunchFailure == Outcome("No such file or directory", 0, "", "", <<>>)

\* node cli generate ...
GenerateOutcomes ==
    { Outcome("", 0, "done", "", <<"package.json">>),
      Outcome("", 0, "done", "", <<>>),
      Outcome("", 1, "", "boom", <<>>),
      LaunchFailure }

\* node cli analyze ... --json
AnalyzeOutcomes ==
    { Outcome("", 0, ValidJson, "", <<>>),
      Outcome("", 0, "not json", "warn", <<>>),
      Outcome("", 0, "", "", <<>>),
      Outcome("", 1, "", "boom", <<>>),
      LaunchFailure }

\* npm publish ...
PublishOutcomes ==
    { Outcome("", 0, "+ pkg@1.0.0", "", <<>>),
      Outcome("", 1, "", "boom", <<>>),
      LaunchFailure }

OutcomesOf(where) ==
    CASE where = "run_generation_task" -> GenerateOutcomes
      [] where = "run_analysis_task" -> AnalyzeOutcomes
      [] where = "run_publish_task" -> PublishOutcomes
      [] OTHER -> {}

\* A runner whose except branch keeps the fields of the normal return and
\* only puts the exception into stderr.
run_node_command_KeepsExitCode(o) ==
    [success |-> (o.returncode = 0), stdout |-> o.stdout,
     stderr |-> IF o.exc = "" THEN o.stderr ELSE o.exc,
     returncode |-> o.returncode]

\* run_node_command: the structured result of one launch.
run_node_command(o) ==
    IF o.exc = ""
    THEN [success |-> (o.returncode = 0), stdout |-> o.stdout,
          stderr |-> o.stderr, returncode |-> o.returncode]
    ELSE [success |-> FALSE, stdout |-> "", stderr |-> o.exc,
          returncode |-> -1]

\* json.loads on the captured stdout: ok = FALSE is json.JSONDecodeError.
json_loads(s) ==
    IF s = ValidJson
    THEN [ok |-> TRUE, value |-> {<<"qualityScore", "9">>}]
    ELSE [ok |-> FALSE, value |-> {}]

\* A generator that hands out the previous id again.
uuid4_Repeating == IF uuid_count = 0 THEN 1 ELSE uuid_count

\* A generator that hands out again the least id that is in no store.
uuid4_Recycling ==
    LET free == { t \in 1..uuid_count :
                    /\ t \notin DOMAIN generation_tasks
                    /\ t \notin DOMAIN analysis_tasks
                    /\ t \notin DOMAIN publish_tasks
                    /\ t \notin DOMAIN router_tasks }
    IN IF free = {}
       THEN uuid_count + 1
       ELSE CHOOSE t \in free : \A u \in free : t <= u

\* uuid.uuid4(): ids are opaque and, by the generator's contract, never repeat;
\* the k-th draw is named k.
uuid4 == uuid_count + 1

\* timedelta(hours=1) of cleanup_tasks.
RetentionHours == 1

\* ------------------------------------------------------------------- Init
Init ==
    /\ generation_tasks = EmptyStore
    /\ analysis_tasks = EmptyStore
    /\ publish_tasks = EmptyStore
    /\ router_tasks = EmptyStore
    /\ cache = EmptyStore
    /\ pc = [t \in Ids |-> "unused"]
    /\ proc = [t \in Ids |-> None]
    /\ args = [t \in Ids |-> None]
    /\ now = 0
    /\ uuid_count = 0
    /\ returned = <<>>
    /\ lastPoll = None
    /\ template_response = None
    /\ responses = [t \in Ids |-> None]

\* --------------------------------------------------- main.py: submit

\* The synchronous answer to the request that drew id: what the request's
\* precondition evaluated to, and the HTTP status code of the response.
Respond(id, endpoint, precondition, code) ==
    [responses EXCEPT ![id] = Some([endpoint |-> endpoint,
                                    precondition |-> precondition,
                                    code |-> code])]

\* POST /api/v1/generate.  prepared = FALSE: an expression of the try block
\* before the insert raises (mkdtemp, or the CLI is not built); the except
\* branch answers 500.
generate_package(prepared) ==
    /\ uuid_count < MaxTasks
    /\ uuid_count' = uuid_count + 1
    /\ LET generation_id == uuid4 IN
       IF prepared
       THEN /\ generation_tasks' =
                 Put(generation_tasks, generation_id,
                     [status |-> "running", completed_at |-> None,
                      result |-> None, files |-> None, error |-> None])
            /\ pc' = [pc EXCEPT ![generation_id] = "run_generation_task"]
            /\ returned' = Append(returned, <<"generation", generation_id>>)
            /\ responses' = Respond(generation_id, "generate", TRUE, 200)
       ELSE /\ responses' = Respond(generation_id, "generate", FALSE, 500)
            /\ UNCHANGED <<generation_tasks, pc, returned>>
    /\ UNCHANGED <<analysis_tasks, publish_tasks, routerVars, proc, args, now,
                   lastPoll, template_response>>

\* An analyze handler that stores the record before it looks at the path.
analyze_package_InsertFirst(path_exists) ==
    /\ uuid_count < MaxTasks
    /\ uuid_count' = uuid_count + 1
    /\ LET analysis_id == uuid4 IN
       /\ analysis_tasks' =
            Put(analysis_tasks, analysis_id,
                [status |-> "running", completed_at |-> None,
                 result |-> None, analysis_result |-> None, error |-> None])
       /\ IF path_exists
          THEN /\ pc' = [pc EXCEPT ![analysis_id] = "run_analysis_task"]
               /\ returned' = Append(returned, <<"analysis", analysis_id>>)
               /\ responses' = Respond(analysis_id, "analyze", TRUE, 200)
          ELSE /\ responses' = Respond(analysis_id, "analyze", FALSE, 500)
               /\ UNCHANGED <<pc, returned>>
    /\ UNCHANGED <<generation_tasks, publish_tasks, routerVars, proc, args,
                   now, lastPoll, template_response>>

\* POST /api/v1/analyze.  path_exists = os.path.exists(request.packagePath).
\* The HTTPException(400) of the path check is raised inside the try block:
\* "except Exception" catches it and raises HTTPException(500) in its place.
analyze_package(path_exists) ==
    /\ uuid_count < MaxTasks
    /\ uuid_count' = uuid_count + 1
    /\ LET analysis_id == uuid4 IN
       IF path_exists
       THEN /\ analysis_tasks' =
                 Put(analysis_tasks, analysis_id,
                     [status |-> "running", completed_at |-> None,
                      result |-> None, analysis_result |-> None,
                      error |-> None])
            /\ pc' = [pc EXCEPT ![analysis_id] = "run_analysis_task"]
            /\ returned' = Append(returned, <<"analysis", analysis_id>>)
            /\ responses' = Respond(analysis_id, "analyze", TRUE, 200)
       ELSE /\ responses' = Respond(analysis_id, "analyze", FALSE, 500)
            /\ UNCHANGED <<analysis_tasks, pc, returned>>
    /\ UNCHANGED <<generation_tasks, publish_tasks, routerVars, proc, args,
                   now, lastPoll, template_response>>

\* POST /api/v1/publish: the same shape as analyze_package.
publish_package(path_exists) ==
    /\ uuid_count < MaxTasks
    /\ uuid_count' = uuid_count + 1
    /\ LET publish_id == uuid4 IN
       IF path_exists
       THEN /\ publish_tasks' =
                 Put(publish_tasks, publish_id,
                     [status |-> "running", completed_at |-> None,
                      result |-> None, error |-> None])
            /\ pc' = [pc EXCEPT ![publish_id] = "run_publish_task"]
            /\ returned' = Append(returned, <<"publish", publish_id>>)
            /\ responses' = Respond(publish_id, "publish", TRUE, 200)
       ELSE /\ responses' = Respond(publish_id, "publish", FALSE, 500)
            /\ UNCHANGED <<publish_tasks, pc, returned>>
    /\ UNCHANGED <<generation_tasks, analysis_tasks, routerVars, proc, args,
                   now, lastPoll, template_response>>

\* An optimize handler that registers its run as a task.
optimize_package_AsTask(path_exists, o) ==
    /\ uuid_count < MaxTasks
    /\ uuid_count' = uuid_count + 1
    /\ LET optimization_id == uuid4 IN
       /\ responses' = Respond(optimization_id, "optimize", path_exists,
                               IF path_exists THEN 200 ELSE 500)
       /\ analysis_tasks' =
            IF path_exists
            THEN Put(analysis_tasks, optimization_id,
                     [status |-> IF run_node_command(o).success
                                 THEN "completed" ELSE "failed",
                      completed_at |-> Some(now),
                      result |-> Some(run_node_command(o)),
                      analysis_result |-> None, error |-> None])
            ELSE analysis_tasks
    /\ UNCHANGED <<generation_tasks, publish_tasks, routerVars, pc, proc, args,
                   now, returned, lastPoll, template_response>>

\* POST /api/v1/optimize: synchronous.  The handler draws its id, checks the
\* path, awaits run_node_command on outcome o and answers; it reads and
\* writes no task store, so the await in its middle separates nothing that
\* another handler can observe and the request is one step.  A missing path
\* is answered 500, as in analyze_package; otherwise the response is 200
\* with success as the runner reports it (the parsed output only fills
\* optional lists of the body, and an unparsable output leaves them empty).
optimize_package(path_exists, o) ==
    /\ uuid_count < MaxTasks
    /\ uuid_count' = uuid_count + 1
    /\ LET optimization_id == uuid4
           result == run_node_command(o)
       IN responses' =
            [responses EXCEPT ![optimization_id] =
               Some(IF path_exists
                    THEN [endpoint |-> "optimize", precondition |-> TRUE,
                          code |-> 200, success |-> result.success]
                    ELSE [endpoint |-> "optimize", precondition |-> FALSE,
                          code |-> 500])]
    /\ UNCHANGED <<mainVars, routerVars, pc, proc, args, now, returned,
                   lastPoll, template_response>>

\* POST /api/v1/templates/{template_id}: synchronous, and no id is drawn.
\* prepared = FALSE: writing the config file raises.  The handler awaits
\* run_node_command on outcome o; on success it answers 200 with the files
\* found in the output directory, otherwise it raises HTTPException(500).
\* It reads and writes no task store: as in optimize_package the request is
\* one step.
generate_from_template(prepared, o) ==
    /\ LET result == run_node_command(o) IN
       template_response' =
         IF prepared /\ result.success
         THEN Some([code |-> 200, success |-> TRUE, files |-> o.written])
         ELSE Some([code |-> 500])
    /\ UNCHANGED <<mainVars, routerVars, pc, proc, args, now, uuid_count,
                   returned, lastPoll, responses>>

\* ------------------------------------------- main.py: background execution

MainAwaiting == {"run_generation_task", "run_analysis_task", "run_publish_task"}

\* The subprocess of task t ends (or cannot be started): the awaited
\* run_node_command becomes ready to return.
ProcessExit(t, o) ==
    /\ pc[t] \in MainAwaiting
    /\ proc[t] = None
    /\ o \in OutcomesOf(pc[t])
    /\ proc' = [proc EXCEPT ![t] = Some(o)]
    /\ UNCHANGED <<mainVars, routerVars, pc, args, now, uuid_count, returned,
                   lastPoll, responses, template_response>>

\* The update without the file collection.
GenerationUpdate_NoFiles(rec, result, listing) ==
    [rec EXCEPT !.status = IF result.success THEN "completed" ELSE "failed",
                !.completed_at = Some(now),
                !.result = Some(result)]

\* dict.update of a generation record after run_node_command returned,
\* then the file collection of the success branch; no await in between.
\* (In the three run_*_task coroutines a record missing from the store makes
\* the update raise KeyError, in the try block and again in the except
\* branch: the coroutine ends and the store is left as it is.)
GenerationUpdate(rec, result, listing) ==
    LET updated == [rec EXCEPT !.status = IF result.success THEN "completed"
                                          ELSE "failed",
                               !.completed_at = Some(now),
                               !.result = Some(result)]
    IN IF result.success
       THEN [updated EXCEPT !.files = Some(listing)]
       ELSE updated

\* A coroutine that is suspended between the status update and the file
\* collection.
run_generation_task_Split(t) ==
    /\ pc[t] = "run_generation_task"
    /\ proc[t] # None
    /\ t \in DOMAIN generation_tasks
    /\ LET o == The(proc[t])
           result == run_node_command(o)
           rec == generation_tasks[t]
       IN IF rec.status = "running"
          THEN /\ generation_tasks' =
                    [generation_tasks EXCEPT
                       ![t] = GenerationUpdate_NoFiles(rec, result, o.written)]
               /\ UNCHANGED pc
          ELSE /\ generation_tasks' =
                    [generation_tasks EXCEPT
                       ![t] = IF result.success
                              THEN [rec EXCEPT !.files = Some(o.written)]
                              ELSE rec]
               /\ pc' = [pc EXCEPT ![t] = "done"]
    /\ UNCHANGED <<analysis_tasks, publish_tasks, routerVars, proc, args, now,
                   uuid_count, returned, lastPoll, responses,
                   template_response>>

\* run_generation_task resumes after run_node_command: the update and the
\* file collection (os.path.exists, os.walk) run without an await.
run_generation_task(t) ==
    /\ pc[t] = "run_generation_task"
    /\ proc[t] # None
    /\ LET o == The(proc[t])
           result == run_node_command(o)
       IN generation_tasks' =
            IF t \in DOMAIN generation_tasks
            THEN [generation_tasks EXCEPT
                    ![t] = GenerationUpdate(generation_tasks[t], result,
                                            o.written)]
            ELSE generation_tasks
    /\ pc' = [pc EXCEPT ![t] = "done"]
    /\ UNCHANGED <<analysis_tasks, publish_tasks, routerVars, proc, args, now,
                   uuid_count, returned, lastPoll, responses,
                   template_response>>

\* An analysis result that is dropped when the output does not parse.
AnalysisResult_DropsNote(result) ==
    IF result.success /\ result.stdout # "" /\ json_loads(result.stdout).ok
    THEN json_loads(result.stdout).value
    ELSE {}

\* analysis_result of run_analysis_task.
AnalysisResult(result) ==
    IF result.success /\ result.stdout # ""
    THEN IF json_loads(result.stdout).ok
         THEN json_loads(result.stdout).value
         ELSE {<<"error", "Failed to parse analysis result">>}
    ELSE {}

AnalysisUpdate(rec, result) ==
    [rec EXCEPT !.status = IF result.success THEN "completed" ELSE "failed",
                !.completed_at = Some(now),
                !.result = Some(result),
                !.analysis_result = Some(AnalysisResult(result))]

run_analysis_task(t) ==
    /\ pc[t] = "run_analysis_task"
    /\ proc[t] # None
    /\ LET result == run_node_command(The(proc[t]))
       IN analysis_tasks' =
            IF t \in DOMAIN analysis_tasks
            THEN [analysis_tasks EXCEPT
                    ![t] = AnalysisUpdate(analysis_tasks[t], result)]
            ELSE analysis_tasks
    /\ pc' = [pc EXCEPT ![t] = "done"]
    /\ UNCHANGED <<generation_tasks, publish_tasks, routerVars, proc, args,
                   now, uuid_count, returned, lastPoll, responses,
                   template_response>>

PublishUpdate(rec, result) ==
    [rec EXCEPT !.status = IF result.success THEN "completed" ELSE "failed",
                !.completed_at = Some(now),
                !.result = Some(result)]

run_publish_task(t) ==
    /\ pc[t] = "run_publish_task"
    /\ proc[t] # None
    /\ LET result == run_node_command(The(proc[t]))
       IN publish_tasks' =
            IF t \in DOMAIN publish_tasks
            THEN [publish_tasks EXCEPT
                    ![t] = PublishUpdate(publish_tasks[t], result)]
            ELSE publish_tasks
    /\ pc' = [pc EXCEPT ![t] = "done"]
    /\ UNCHANGED <<generation_tasks, analysis_tasks, routerVars, proc, args,
                   now, uuid_count, returned, lastPoll, responses,
                   template_response>>

\* ------------------------------------------------------ main.py: cleanup

\* A sweep that also takes the records completed exactly at cutoff_time.
ToRemove_NotStrict(tasks, cutoff_time) ==
    { task_id \in DOMAIN tasks :
        /\ tasks[task_id].status \in {"completed", "failed"}
        /\ (IF tasks[task_id].completed_at # None
            THEN The(tasks[task_id].completed_at)
            ELSE now) <= cutoff_time }

\* A sweep that tests neither status nor age.
ToRemove_All(tasks, cutoff_time) == DOMAIN tasks

\* The to_remove list of one family at cutoff_time.
ToRemove(tasks, cutoff_time) ==
    { task_id \in DOMAIN tasks :
        /\ tasks[task_id].status \in {"completed", "failed"}
        /\ (IF tasks[task_id].completed_at # None
            THEN The(tasks[task_id].completed_at)
            ELSE now) < cutoff_time }

\* A sweep that stops after the first deletion.
Sweep_OnePerCall(tasks, cutoff_time) ==
    LET to_remove == ToRemove(tasks, cutoff_time) IN
    IF to_remove = {}
    THEN tasks
    ELSE Drop(tasks, {CHOOSE t \in to_remove : \A u \in to_remove : t <= u})

\* One family's part of the sweep: every id of to_remove is deleted.
Sweep(tasks, cutoff_time) == Drop(tasks, ToRemove(tasks, cutoff_time))

\* A body whose cleaned counts are the sizes of the to_remove lists of a
\* sweep that also takes the records completed exactly at cutoff_time.
cleanup_response_CountsCandidates ==
    LET cutoff_time == now - RetentionHours
        candidates(tasks) ==
            Cardinality(ToRemove_NotStrict(tasks, cutoff_time))
        final(tasks) == Cardinality(DOMAIN Sweep(tasks, cutoff_time))
    IN [success |-> TRUE,
        cleaned |->
          [generations |-> candidates(generation_tasks),
           analyses |-> candidates(analysis_tasks),
           publishes |-> candidates(publish_tasks)],
        remaining |->
          [generations |-> final(generation_tasks),
           analyses |-> final(analysis_tasks),
           publishes |-> final(publish_tasks)]]

\* The body a call of DELETE /api/v1/cleanup returns in the current state:
\* per family, the store's size before the sweep minus its size after it,
\* and the size after it.
cleanup_response ==
    LET cutoff_time == now - RetentionHours
        initial(tasks) == Cardinality(DOMAIN tasks)
        final(tasks) == Cardinality(DOMAIN Sweep(tasks, cutoff_time))
    IN [success |-> TRUE,
        cleaned |->
          [generations |-> initial(generation_tasks) - final(generation_tasks),
           analyses |-> initial(analysis_tasks) - final(analysis_tasks),
           publishes |-> initial(publish_tasks) - final(publish_tasks)],
        remaining |->
          [generations |-> final(generation_tasks),
           analyses |-> final(analysis_tasks),
           publishes |-> final(publish_tasks)]]

\* DELETE /api/v1/cleanup: the three sweeps run without an await.
cleanup_tasks ==
    /\ LET cutoff_time == now - RetentionHours
       IN /\ generation_tasks' = Sweep(generation_tasks, cutoff_time)
          /\ analysis_tasks' = Sweep(analysis_tasks, cutoff_time)
          /\ publish_tasks' = Sweep(publish_tasks, cutoff_time)
    /\ UNCHANGED <<routerVars, pc, proc, args, now, uuid_count, returned,
                   lastPoll, responses, template_response>>

\* Time passes.
Tick ==
    /\ now < MaxTime
    /\ now' = now + 1
    /\ UNCHANGED <<mainVars, routerVars, pc, proc, args, uuid_count, returned,
                   lastPoll, responses, template_response>>

\* ------------------------------------------------------ main.py: health

\* The "metrics" of the body GET /health returns in the current state; the
\* stores are read when the body is built, after the two version checks.
health_check ==
    [active_generations |-> Cardinality(DOMAIN generation_tasks),
     active_analyses |-> Cardinality(DOMAIN analysis_tasks),
     active_publishes |-> Cardinality(DOMAIN publish_tasks)]

\* ------------------------------------------------ main.py: status polls

NotFound == [code |-> 404]

\* GET /api/v1/generate/{generation_id}
get_generation_status(generation_id) ==
    IF generation_id \notin DOMAIN generation_tasks
    THEN NotFound
    ELSE LET task == generation_tasks[generation_id] IN
         [code |-> 200, status |-> task.status,
          completed_at |-> task.completed_at,
          files |-> IF task.files # None THEN The(task.files) ELSE <<>>,
          result |-> task.result,
          error |-> task.error]

\* GET /api/v1/analyze/{analysis_id}
get_analysis_status(analysis_id) ==
    IF analysis_id \notin DOMAIN analysis_tasks
    THEN NotFound
    ELSE LET task == analysis_tasks[analysis_id] IN
         [code |-> 200, status |-> task.status,
          completed_at |-> task.completed_at,
          result |-> IF task.analysis_result # None
                     THEN The(task.analysis_result) ELSE {},
          error |-> task.error]

\* GET /api/v1/publish/{publish_id}
get_publish_status(publish_id) ==
    IF publish_id \notin DOMAIN publish_tasks
    THEN NotFound
    ELSE LET task == publish_tasks[publish_id] IN
         [code |-> 200, status |-> task.status,
          completed_at |-> task.completed_at,
          result |-> task.result,
          error |-> task.error]

Observe(family, id, resp) ==
    Some([family |-> family, id |-> id, code |-> resp.code,
          status |-> IF resp.code = 200 THEN Some(resp.status) ELSE None,
          progress |-> IF resp.code = 200 /\ family = "router"
                       THEN Some(resp.progress) ELSE None])

\* A client polls a status endpoint of main.py with an id it was given and
\* receives the response.
PollGeneration(t) ==
    /\ <<"generation", t>> \in Range(returned)
    /\ lastPoll' = Observe("generation", t, get_generation_status(t))
    /\ UNCHANGED <<mainVars, routerVars, pc, proc, args, now, uuid_count,
                   returned, responses, template_response>>

PollAnalysis(t) ==
    /\ <<"analysis", t>> \in Range(returned)
    /\ lastPoll' = Observe("analysis", t, get_analysis_status(t))
    /\ UNCHANGED <<mainVars, routerVars, pc, proc, args, now, uuid_count,
                   returned, responses, template_response>>

PollPublish(t) ==
    /\ <<"publish", t>> \in Range(returned)
    /\ lastPoll' = Observe("publish", t, get_publish_status(t))
    /\ UNCHANGED <<mainVars, routerVars, pc, proc, args, now, uuid_count,
                   returned, responses, template_response>>

\* --------------------------------------- routers/generate.py: result cache

\* expire=3600 of the cache_manager.set call, in hours.
CacheExpireHours == 1

\* cache_manager.set(key, value, expire)
cache_set(c, key, value, expire) ==
    Put(c, key, [value |-> value, expires_at |-> now + expire])

\* cache_manager.get(key): the value of an unexpired entry, else None.
cache_get(c, key) ==
    IF key \in DOMAIN c /\ now < c[key].expires_at
    THEN Some(c[key].value)
    ELSE None

\* ------------------------------------------ routers/generate.py: submit

\* POST /generate/.  The record is stored first; the arguments of add_task
\* are evaluated after it.  enable_testing is the request's flag, bound to
\* the background task by add_task.  has_user_id: the dict get_current_user
\* returned has the key "user_id"; without it current_user["user_id"] raises
\* KeyError after the insert, add_task is never called and the request is
\* answered 500.
router_generate_package(enable_testing, has_user_id) ==
    /\ uuid_count < MaxTasks
    /\ uuid_count' = uuid_count + 1
    /\ LET task_id == uuid4 IN
       /\ router_tasks' =
            Put(router_tasks, task_id,
                [status |-> "pending", progress |-> 0,
                 stage |-> "initialization", message |-> None,
                 result |-> None, error |-> None])
       /\ IF has_user_id
          THEN /\ pc' = [pc EXCEPT ![task_id] = "scheduled"]
               /\ args' = [args EXCEPT ![task_id] =
                              Some([enable_testing |-> enable_testing])]
               /\ returned' = Append(returned, <<"router", task_id>>)
               /\ responses' = Respond(task_id, "router", TRUE, 200)
          ELSE /\ responses' = Respond(task_id, "router", FALSE, 500)
               /\ UNCHANGED <<pc, args, returned>>
    /\ UNCHANGED <<mainVars, cache, proc, now, lastPoll, template_response>>

\* An update that is applied to every record of the store.
update_task_status_AllTasks(tasks, task_id, status, progress, stage, message, result, error) ==
    [u \in DOMAIN tasks |->
        [status |-> status, progress |-> progress, stage |-> stage,
         message |-> message, result |-> result, error |-> error]]

\* update_task_status: every field is overwritten, the optional ones with
\* their defaults when the caller leaves them out.
update_task_status(tasks, task_id, status, progress, stage, message, result, error) ==
    IF task_id \in DOMAIN tasks
    THEN [tasks EXCEPT ![task_id] =
            [status |-> status, progress |-> progress, stage |-> stage,
             message |-> message, result |-> result, error |-> error]]
    ELSE tasks

\* A failure that resets the progress.
Fail_ResetsProgress(tasks, task_id, e) ==
    update_task_status(tasks, task_id, "failed", 0, tasks[task_id].stage,
                       None, None, Some(e))

\* A failure that names the stage "failed".
Fail_StageFailed(tasks, task_id, e) ==
    update_task_status(tasks, task_id, "failed", tasks[task_id].progress,
                       "failed", None, None, Some(e))

\* The except branch of generate_package_async: failed, with the record's
\* current progress and stage, and str(e) as error.
Fail(tasks, task_id, e) ==
    update_task_status(tasks, task_id, "failed", tasks[task_id].progress,
                       tasks[task_id].stage, None, None, Some(e))

InProgress(tasks, task_id, progress, stage) ==
    update_task_status(tasks, task_id, "in_progress", progress, stage,
                       None, None, None)

\* Payloads generator.create_package can return.
PackageResults == { {}, {<<"path", "/out/pkg">>} }

\* ------------------------------ routers/generate.py: background execution

\* The coroutine starts: the two services are constructed outside the try
\* block, then the first progress update is made and analyze_idea awaited.
\* constructed = FALSE: a constructor raises, the exception leaves the
\* coroutine.
AsyncStart(t, constructed) ==
    /\ pc[t] = "scheduled"
    /\ IF constructed
       THEN /\ router_tasks' =
                 InProgress(router_tasks, t, 10, "analyzing_requirements")
            /\ pc' = [pc EXCEPT ![t] = "analyze_idea"]
       ELSE /\ pc' = [pc EXCEPT ![t] = "done"]
            /\ UNCHANGED router_tasks
    /\ UNCHANGED <<mainVars, cache, proc, args, now, uuid_count, returned,
                   lastPoll, responses, template_response>>

\* analyze_idea returns or raises.  On return: progress 30, package_config
\* is built from the analysis (a missing key raises there), progress 50,
\* generate_source_code is awaited.
AfterAnalyzeIdea(t, outcome) ==
    /\ pc[t] = "analyze_idea"
    /\ \/ /\ outcome = "ok"
          /\ router_tasks' =
               InProgress(InProgress(router_tasks, t, 30, "generating_structure"),
                          t, 50, "generating_code")
          /\ pc' = [pc EXCEPT ![t] = "generate_source_code"]
       \/ /\ outcome = "bad_analysis"
          /\ router_tasks' =
               Fail(InProgress(router_tasks, t, 30, "generating_structure"),
                    t, "'recommended_features'")
          /\ pc' = [pc EXCEPT ![t] = "done"]
       \/ /\ outcome = "raise"
          /\ router_tasks' = Fail(router_tasks, t, "analyze_idea failed")
          /\ pc' = [pc EXCEPT ![t] = "done"]
    /\ UNCHANGED <<mainVars, cache, proc, args, now, uuid_count, returned,
                   lastPoll, responses, template_response>>

\* generate_source_code returns or raises.  On return: progress 70, then
\* generate_tests is awaited when testing is enabled; otherwise progress 90
\* follows at once and create_package is awaited.
AfterGenerateSourceCode(t, outcome) ==
    /\ pc[t] = "generate_source_code"
    /\ \/ /\ outcome = "ok"
          /\ The(args[t]).enable_testing
          /\ router_tasks' = InProgress(router_tasks, t, 70, "generating_tests")
          /\ pc' = [pc EXCEPT ![t] = "generate_tests"]
       \/ /\ outcome = "ok"
          /\ ~The(args[t]).enable_testing
          /\ router_tasks' =
               InProgress(InProgress(router_tasks, t, 70, "generating_tests"),
                          t, 90, "finalizing_package")
          /\ pc' = [pc EXCEPT ![t] = "create_package"]
       \/ /\ outcome = "raise"
          /\ router_tasks' = Fail(router_tasks, t, "generate_source_code failed")
          /\ pc' = [pc EXCEPT ![t] = "done"]
    /\ UNCHANGED <<mainVars, cache, proc, args, now, uuid_count, returned,
                   lastPoll, responses, template_response>>

\* A test generation that is tried again after it failed.
AfterGenerateTests_Retry(t, outcome) ==
    /\ pc[t] = "generate_tests"
    /\ \/ /\ outcome = "ok"
          /\ router_tasks' = InProgress(router_tasks, t, 90, "finalizing_package")
          /\ pc' = [pc EXCEPT ![t] = "create_package"]
       \/ /\ outcome = "raise"
          /\ router_tasks' = Fail(router_tasks, t, "generate_tests failed")
          /\ UNCHANGED pc
    /\ UNCHANGED <<mainVars, cache, proc, args, now, uuid_count, returned,
                   lastPoll, responses, template_response>>

\* generate_tests returns or raises.  On return: progress 90, create_package
\* is awaited.
AfterGenerateTests(t, outcome) ==
    /\ pc[t] = "generate_tests"
    /\ \/ /\ outcome = "ok"
          /\ router_tasks' = InProgress(router_tasks, t, 90, "finalizing_package")
          /\ pc' = [pc EXCEPT ![t] = "create_package"]
       \/ /\ outcome = "raise"
          /\ router_tasks' = Fail(router_tasks, t, "generate_tests failed")
          /\ pc' = [pc EXCEPT ![t] = "done"]
    /\ UNCHANGED <<mainVars, cache, proc, args, now, uuid_count, returned,
                   lastPoll, responses, template_response>>

\* create_package returns result or raises.  On return the record is marked
\* completed and cache_manager.set is awaited.
AfterCreatePackage(t, outcome) ==
    /\ pc[t] = "create_package"
    /\ \/ /\ outcome = "ok"
          /\ \E result \in PackageResults :
               router_tasks' =
                 update_task_status(router_tasks, t, "completed", 100, "done",
                                    None, Some(result), None)
          /\ pc' = [pc EXCEPT ![t] = "cache_set"]
       \/ /\ outcome = "raise"
          /\ router_tasks' = Fail(router_tasks, t, "create_package failed")
          /\ pc' = [pc EXCEPT ![t] = "done"]
    /\ UNCHANGED <<mainVars, cache, proc, args, now, uuid_count, returned,
                   lastPoll, responses, template_response>>

\* cache_manager.set returns or raises; a raise is caught by the same
\* except branch as the failures of the earlier phases.
AfterCacheSet(t, stored) ==
    /\ pc[t] = "cache_set"
    /\ IF stored
       THEN /\ cache' = cache_set(cache, t, The(router_tasks[t].result),
                                  CacheExpireHours)
            /\ UNCHANGED router_tasks
       ELSE /\ router_tasks' = Fail(router_tasks, t, "cache unavailable")
            /\ UNCHANGED cache
    /\ pc' = [pc EXCEPT ![t] = "done"]
    /\ UNCHANGED <<mainVars, proc, args, now, uuid_count, returned, lastPoll,
                   responses, template_response>>

\* ------------------------------------- routers/generate.py: status polls

\* GET /generate/status/{task_id}.  An empty cached payload is falsy.
router_get_generation_status(task_id) ==
    IF task_id \notin DOMAIN router_tasks
    THEN LET cached_result == cache_get(cache, task_id) IN
         IF cached_result # None /\ The(cached_result) # {}
         THEN [code |-> 200, status |-> "completed", progress |-> 100,
               stage |-> "done", message |-> None, result |-> cached_result,
               error |-> None]
         ELSE NotFound
    ELSE [code |-> 200] @@ router_tasks[task_id]

PollRouter(t) ==
    /\ <<"router", t>> \in Range(returned)
    /\ lastPoll' = Observe("router", t, router_get_generation_status(t))
    /\ UNCHANGED <<mainVars, routerVars, pc, proc, args, now, uuid_count,
                   returned, responses, template_response>>

MainSteps ==
    \/ \E prepared \in BOOLEAN : generate_package(prepared)
    \/ \E path_exists \in BOOLEAN : analyze_package(path_exists)
    \/ \E path_exists \in BOOLEAN : publish_package(path_exists)
    \/ \E path_exists \in BOOLEAN : \E o \in AnalyzeOutcomes :
          optimize_package(path_exists, o)
    \/ \E t \in Ids : \E o \in OutcomesOf(pc[t]) : ProcessExit(t, o)
    \/ \E t \in Ids : run_generation_task(t)
    \/ \E t \in Ids : run_analysis_task(t)
    \/ \E t \in Ids : run_publish_task(t)
    \/ cleanup_tasks
    \/ \E t \in Ids : PollGeneration(t)
    \/ \E t \in Ids : PollAnalysis(t)
    \/ \E t \in Ids : PollPublish(t)

AwaitOutcomes == {"ok", "raise"}

RouterSteps ==
    \/ \E enable_testing, has_user_id \in BOOLEAN :
          router_generate_package(enable_testing, has_user_id)
    \/ \E t \in Ids, constructed \in BOOLEAN : AsyncStart(t, constructed)
    \/ \E t \in Ids, outcome \in AwaitOutcomes \cup {"bad_analysis"} :
          AfterAnalyzeIdea(t, outcome)
    \/ \E t \in Ids, outcome \in AwaitOutcomes :
          AfterGenerateSourceCode(t, outcome)
    \/ \E t \in Ids, outcome \in AwaitOutcomes : AfterGenerateTests(t, outcome)
    \/ \E t \in Ids, outcome \in AwaitOutcomes : AfterCreatePackage(t, outcome)
    \/ \E t \in Ids, stored \in BOOLEAN : AfterCacheSet(t, stored)
    \/ \E t \in Ids : PollRouter(t)

\* The application of main.py, the application of routers/generate.py, and
\* both side by side.
MainNext == MainSteps \/ Tick
RouterNext == RouterSteps \/ Tick
Next == MainSteps \/ RouterSteps \/ Tick

MainSpec == Init /\ [][MainNext]_vars
RouterSpec == Init /\ [][RouterNext]_vars
Spec == Init /\ [][Next]_vars

\* The application of main.py with its two synchronous endpoints, optimize
\* and template generation, next to the task endpoints.  The status polls
\* are left out: they change nothing but the client's latest observation,
\* which no handler reads.
SyncSteps ==
    \/ \E prepared \in BOOLEAN : generate_package(prepared)
    \/ \E path_exists \in BOOLEAN : analyze_package(path_exists)
    \/ \E path_exists \in BOOLEAN : publish_package(path_exists)
    \/ \E path_exists \in BOOLEAN : \E o \in AnalyzeOutcomes :
          optimize_package(path_exists, o)
    \/ \E prepared \in BOOLEAN : \E o \in GenerateOutcomes :
          generate_from_template(prepared, o)
    \/ \E t \in Ids : \E o \in OutcomesOf(pc[t]) : ProcessExit(t, o)
    \/ \E t \in Ids : run_generation_task(t)
    \/ \E t \in Ids : run_analysis_task(t)
    \/ \E t \in Ids : run_publish_task(t)
    \/ cleanup_tasks

SyncNext == SyncSteps \/ Tick
SyncSpec == Init /\ [][SyncNext]_vars

\* One worker process of the router among several (or after a restart).
\* The store is per process, the cache is shared: of the ids the clients
\* hold, this worker's store has the tasks it ran itself and completed
\* (held), while the cache has the results that were cached by any worker
\* (cached), set at most CacheExpireHours ago or already expired.
WorkerInit ==
    /\ generation_tasks = EmptyStore
    /\ analysis_tasks = EmptyStore
    /\ publish_tasks = EmptyStore
    /\ \E cached \in SUBSET Ids : \E held \in SUBSET cached :
       \E value \in [cached -> PackageResults] :
       \E expires_at \in [cached -> {0, CacheExpireHours}] :
          /\ cache = [t \in cached |->
                        [value |-> value[t], expires_at |-> expires_at[t]]]
          /\ router_tasks =
               [t \in held |->
                  [status |-> "completed", progress |-> 100, stage |-> "done",
                   message |-> None, result |-> Some(value[t]),
                   error |-> None]]
          /\ pc = [t \in Ids |-> IF t \in held THEN "done" ELSE "unused"]
          /\ args = [t \in Ids |-> IF t \in held
                                    THEN Some([enable_testing |-> TRUE])
                                    ELSE None]
          /\ responses =
               [t \in Ids |->
                  IF t \in held
                  THEN Some([endpoint |-> "router", precondition |-> TRUE,
                             code |-> 200])
                  ELSE None]
    /\ proc = [t \in Ids |-> None]
    /\ now = 0
    /\ uuid_count = MaxTasks
    /\ returned = [t \in Ids |-> <<"router", t>>]
    /\ lastPoll = None
    /\ template_response = None

\* The clients poll that worker while time passes.
WorkerNext == (\E t \in Ids : PollRouter(t)) \/ Tick
WorkerSpec == WorkerInit /\ [][WorkerNext]_vars

\* The event loop resumes every coroutine that is ready to run, and the
\* executable terminates.
MainFairSpec ==
    /\ MainSpec
    /\ \A t \in Ids :
         /\ WF_vars(\E o \in OutcomesOf(pc[t]) : ProcessExit(t, o))
         /\ WF_vars(run_generation_task(t))
         /\ WF_vars(run_analysis_task(t))
         /\ WF_vars(run_publish_task(t))

\* ------------------------------------------------------------ properties

Terminal == {"completed", "failed"}
MainFamilies == {"generation", "analysis", "publish"}
Families == MainFamilies \cup {"router"}

Store(family) ==
    CASE family = "generation" -> generation_tasks
      [] family = "analysis" -> analysis_tasks
      [] family = "publish" -> publish_tasks
      [] family = "router" -> router_tasks

\* The response of the family's status endpoint for id.
StatusResponse(family, id) ==
    CASE family = "generation" -> get_generation_status(id)
      [] family = "analysis" -> get_analysis_status(id)
      [] family = "publish" -> get_publish_status(id)
      [] family = "router" -> router_get_generation_status(id)

\* Ids that were handed to a client and are no longer in their store.
Evicted(family) ==
    { t \in Ids : <<family, t>> \in Range(returned) /\ t \notin DOMAIN Store(family) }

\* Texts are atomic values here: one contains another when it is that text.
Contains(text, part) == part = "" \/ text = part

\* C1: once a record's status is completed or failed, no later step changes
\* its status; in particular a completed record is never marked failed.
C1_TerminalStatusIsFinal ==
    [][\A family \in Families : \A t \in DOMAIN Store(family) :
          (Store(family)[t].status \in Terminal /\ t \in DOMAIN Store(family)')
             => Store(family)'[t].status = Store(family)[t].status]_vars

\* The order pending -> running -> {completed | failed}, and its transitive
\* steps; the router's "in_progress" is read as running.
Follows(a, b) ==
    \/ a = b
    \/ a = "pending"
    \/ a \in {"running", "in_progress"} /\ b \in Terminal

\* C2: two successive polls of one task never show statuses out of the order
\* pending -> running -> {completed | failed}: no earlier status after a later
\* one, and nothing but the same terminal status after a terminal one.
C2_PollsFollowOrder ==
    [][(lastPoll # None /\ lastPoll' # None) =>
         LET a == The(lastPoll)
             b == The(lastPoll')
         IN (a.family = b.family /\ a.id = b.id /\ a.code = 200 /\ b.code = 200)
               => Follows(The(a.status), The(b.status))]_vars

\* C3: every completed record has a result and no error, every failed record
\* has an error and no result, in the generation, analysis and publish stores.
C3_ExactlyOneOfResultError ==
    \A family \in MainFamilies : \A t \in DOMAIN Store(family) :
        LET task == Store(family)[t] IN
        /\ task.status = "completed" => (task.result # None /\ task.error = None)
        /\ task.status = "failed" => (task.error # None /\ task.result = None)

\* The executable of task t ran and exited with a non-zero code, and the
\* background execution of t has ended.
EndedNonZero(t) ==
    /\ pc[t] = "done"
    /\ proc[t] # None
    /\ The(proc[t]).exc = ""
    /\ The(proc[t]).returncode # 0

\* C4: when the executable of a task exits non-zero, the status endpoint
\* shows the task failed with an error that contains the captured stderr.
C4_ErrorCarriesStderr ==
    \A family \in {"generation", "analysis"} : \A t \in DOMAIN Store(family) :
        EndedNonZero(t) =>
            LET response == StatusResponse(family, t) IN
            /\ response.status = "failed"
            /\ response.error # None
            /\ Contains(The(response.error), The(proc[t]).stderr)

\* C5: no background execution ends while its record is pending or running
\* (in_progress): every failure, the construction of the services included,
\* ends in failed.
C5_NoSilentEnd ==
    \A family \in Families : \A t \in DOMAIN Store(family) :
        pc[t] = "done" => Store(family)[t].status \in Terminal

\* The executable of generation task t has exited with code 0 and the
\* background coroutine has not resumed yet.
GenExitZero(t) ==
    /\ pc[t] = "run_generation_task"
    /\ proc[t] # None
    /\ The(proc[t]).exc = ""
    /\ The(proc[t]).returncode = 0

\* A poll of generation task t returns completed with the files its
\* executable left in the output directory.
PollCompleted(t) ==
    LET response == get_generation_status(t) IN
    /\ response.code = 200
    /\ response.status = "completed"
    /\ proc[t] # None
    /\ response.files = The(proc[t]).written

\* C6 as claimed: a generation task whose executable exits with code 0 is
\* eventually completed, and from then on every poll returns completed with
\* the collected file list.
C6_CompletedForever ==
    \A t \in Ids : [](GenExitZero(t) => <>[]PollCompleted(t))

\* C6 as amended: a generation task whose executable exits with code 0 is
\* eventually completed with its file list, and every later poll returns the
\* same for as long as the record is in the store (until a sweep evicts it).
C6_CompletedUntilEvicted ==
    /\ \A t \in Ids : [](GenExitZero(t) => <>PollCompleted(t))
    /\ [][\A t \in Ids :
            PollCompleted(t) =>
               (PollCompleted(t)' \/ t \notin DOMAIN generation_tasks')]_vars

C6_Witness ==
    \E t \in Ids :
        /\ PollCompleted(t)
        /\ get_generation_status(t).files # <<>>
        /\ The(generation_tasks[t].completed_at) < now

\* C7: the id of every accepted submit differs from all ids returned before,
\* and right after the response its status endpoint finds the record with
\* status pending or running.
C7_FreshAndResolvable ==
    [][\A family \in Families : \A t \in Ids :
          returned' = Append(returned, <<family, t>>) =>
             /\ \A i \in DOMAIN returned : returned[i][2] # t
             /\ StatusResponse(family, t)'.code = 200
             /\ StatusResponse(family, t)'.status \in {"pending", "running"}]_vars

C7_Witness ==
    /\ Len(returned) = 2
    /\ returned[1][1] = "router"
    /\ returned[2][1] \in MainFamilies
    /\ returned[1][2] # returned[2][2]

\* C8: across two successive polls of one task the progress never decreases,
\* the polls on either side of the step into completed or failed included.
C8_ProgressNeverDecreases ==
    [][(lastPoll # None /\ lastPoll' # None) =>
         LET a == The(lastPoll)
             b == The(lastPoll')
         IN (a.family = b.family /\ a.id = b.id
               /\ a.progress # None /\ b.progress # None)
               => The(a.progress) <= The(b.progress)]_vars

C8_Witness ==
    /\ lastPoll # None
    /\ The(lastPoll).status = Some("failed")
    /\ The(lastPoll).progress = Some(90)

\* The records of a store a sweep at time T has to remove: terminal, and
\* completed strictly more than the retention window before T.
Expired(tasks, T) ==
    { t \in DOMAIN tasks :
        /\ tasks[t].status \in Terminal
        /\ tasks[t].completed_at # None
        /\ The(tasks[t].completed_at) < T - RetentionHours }

\* C9: a sweep at time T removes from each family store exactly the terminal
\* records completed strictly earlier than T minus one hour and leaves every
\* other record in place and unmodified: of N such records and M others,
\* N are removed and M remain.
C9_SweepRemovesExactlyExpired ==
    [][cleanup_tasks =>
         \A family \in MainFamilies :
            /\ DOMAIN Store(family)' =
                 (DOMAIN Store(family)) \ Expired(Store(family), now)
            /\ \A t \in DOMAIN Store(family)' :
                 Store(family)'[t] = Store(family)[t]
            /\ Cardinality(DOMAIN Store(family)')
                 = Cardinality(DOMAIN Store(family))
                     - Cardinality(Expired(Store(family), now))]_vars

\* A sweep has removed a record while a terminal record completed exactly
\* one hour ago is still in place.
C9_Witness ==
    \E family \in MainFamilies :
        /\ Evicted(family) # {}
        /\ \E g \in MainFamilies : \E t \in DOMAIN Store(g) :
             /\ Store(g)[t].status \in Terminal
             /\ The(Store(g)[t].completed_at) = now - RetentionHours

\* C10: under every interleaving a task whose background execution has not
\* made its final update is still in its store with a non-terminal status,
\* so no sweep removes it and the final update finds its record.
C10_UnfinishedNeverEvicted ==
    \A t \in Ids :
        /\ pc[t] = "run_generation_task" =>
             (t \in DOMAIN generation_tasks /\ generation_tasks[t].status = "running")
        /\ pc[t] = "run_analysis_task" =>
             (t \in DOMAIN analysis_tasks /\ analysis_tasks[t].status = "running")
        /\ pc[t] = "run_publish_task" =>
             (t \in DOMAIN publish_tasks /\ publish_tasks[t].status = "running")

\* A sweep has evicted a record while the executable of another task has
\* ended and its coroutine is about to make the final update.
C10_Witness ==
    /\ \E family \in MainFamilies : Evicted(family) # {}
    /\ \E t \in Ids : pc[t] \in MainAwaiting /\ proc[t] # None

\* C11: the sweep is idempotent: a second sweep run directly after a sweep,
\* with no creation, update or tick in between, removes nothing from any of
\* the three stores (they stay equal to their state after the first sweep)
\* and reports zero cleaned for every family.
C11_SweepIdempotent ==
    [][cleanup_tasks =>
         /\ \A family \in MainFamilies :
              Sweep(Store(family), now - RetentionHours)' = Store(family)'
         /\ cleanup_response'.cleaned =
              [generations |-> 0, analyses |-> 0, publishes |-> 0]]_vars

\* A sweep has removed a record and a terminal record survived it: the
\* store a second sweep would run on is not empty.
C11_Witness ==
    /\ \E family \in MainFamilies : Evicted(family) # {}
    /\ \E g \in MainFamilies : \E t \in DOMAIN Store(g) :
         Store(g)[t].status \in Terminal
    /\ cleanup_response.cleaned =
         [generations |-> 0, analyses |-> 0, publishes |-> 0]

\* The endpoints that create a task: main.py's generate, analyze and publish
\* and the router's generate.
SubmitEndpoints == {"generate", "analyze", "publish", "router"}

\* C12: whenever a submit request is answered with a synchronous error, no
\* record for that request (under the id the request drew) is in any task
\* store afterwards.
C12_ErrorLeavesNoRecord ==
    \A t \in Ids :
        (/\ responses[t] # None
         /\ The(responses[t]).endpoint \in SubmitEndpoints
         /\ The(responses[t]).code >= 400)
           => \A family \in Families : t \notin DOMAIN Store(family)

\* The request that drew id t found no package at its path.
PathMissing(t, endpoints) ==
    /\ responses[t] # None
    /\ The(responses[t]).endpoint \in endpoints
    /\ ~The(responses[t]).precondition

\* C13: an analysis request whose package path does not exist is answered
\* with a client error (4xx), not with a server error (5xx).
C13_MissingPathIsClientError ==
    \A t \in Ids :
        PathMissing(t, {"analyze"}) => The(responses[t]).code \in 400..499

\* C14: an analysis, publish or optimize request whose package path does not
\* exist creates no task: the step that answers it leaves the generation,
\* analysis and publish stores as they were and schedules no background
\* execution.
C14_MissingPathCreatesNoTask ==
    [][\A t \in Ids :
          (responses[t] = None
             /\ PathMissing(t, {"analyze", "publish", "optimize"})')
            => UNCHANGED <<generation_tasks, analysis_tasks, publish_tasks,
                           pc, proc, args>>]_vars

\* A request with a missing path was answered while an earlier task was in
\* a store.
C14_Witness ==
    \E t \in Ids :
        /\ PathMissing(t, {"analyze", "publish", "optimize"})
        /\ \E u \in Ids : \E family \in MainFamilies :
             u < t /\ u \in DOMAIN Store(family)

\* C15: the subprocess runner always returns a structured result to its
\* caller: every task whose background execution has ended has the runner's
\* result in its record; when the launch or a step of the run raised, that
\* result is success = false, returncode = -1, empty stdout and the failure
\* description as stderr; otherwise it carries the captured output and
\* success is true exactly when the exit code is 0.
C15_RunnerAlwaysReturns ==
    \A family \in MainFamilies : \A t \in DOMAIN Store(family) :
        pc[t] = "done" =>
            /\ Store(family)[t].result # None
            /\ LET o == The(proc[t])
                   r == The(Store(family)[t].result)
               IN IF o.exc # ""
                  THEN r = [success |-> FALSE, stdout |-> "",
                            stderr |-> o.exc, returncode |-> -1]
                  ELSE /\ r.success = (o.returncode = 0)
                       /\ r.returncode = o.returncode
                       /\ r.stdout = o.stdout
                       /\ r.stderr = o.stderr

\* One task ended after its executable could not be launched, another after
\* its executable ran.
C15_Witness ==
    \E t, u \in Ids : \E family, g \in MainFamilies :
        /\ t \in DOMAIN Store(family) /\ pc[t] = "done"
        /\ The(proc[t]).exc # ""
        /\ u \in DOMAIN Store(g) /\ pc[u] = "done"
        /\ The(proc[u]).exc = ""

\* C16: when the background execution of a task cannot be scheduled, or ends
\* before it has started (no progress watermark was reached), the record is
\* moved from pending directly to failed rather than left pending.
C16_NeverStartedIsFailed ==
    \A t \in DOMAIN router_tasks :
        (pc[t] \in {"unused", "done"} /\ router_tasks[t].progress = 0)
           => router_tasks[t].status = "failed"

\* C17: a record has a result only if its status is completed: pending,
\* running and failed records carry none, in every family.
C17_ResultOnlyWhenCompleted ==
    \A family \in Families : \A t \in DOMAIN Store(family) :
        Store(family)[t].result # None => Store(family)[t].status = "completed"

\* The four statuses of the task state machine.
Statuses == {"pending", "running", "completed", "failed"}

\* C18: the status of every record in every store, and every status a poll
\* returns, is one of pending, running, completed, failed.
C18_StatusIsOneOfFour ==
    /\ \A family \in Families : \A t \in DOMAIN Store(family) :
         Store(family)[t].status \in Statuses
    /\ lastPoll # None => The(lastPoll).status \subseteq Statuses

\* The completed_at of a record: the records of routers/generate.py are
\* GenerationStatus objects, which have no such field.
CompletedAt(family, task) ==
    IF family = "router" THEN None ELSE task.completed_at

\* C19: a record has completed_at if and only if its status is terminal:
\* absent while pending or running, set by the step into completed or
\* failed.
C19_CompletedAtIffTerminal ==
    \A family \in Families : \A t \in DOMAIN Store(family) :
        CompletedAt(family, Store(family)[t]) # None
           <=> Store(family)[t].status \in Terminal

\* C20: when a phase of a generation task fails, the step into failed leaves
\* progress and stage at the last watermark and stage name reached before
\* the failure and sets error to the failure description.  (The KeyError of
\* building package_config is raised in the segment that has just written
\* watermark 30: there the values before the failure are 30 and
\* "generating_structure".)
C20_FailurePreservesProgress ==
    [][\A t \in DOMAIN router_tasks :
          (router_tasks[t].status # "failed"
             /\ router_tasks'[t].status = "failed")
            => LET before == router_tasks[t]
                   after == router_tasks'[t]
               IN /\ after.error # None
                  /\ IF after.error = Some("'recommended_features'")
                     THEN /\ after.progress = 30
                          /\ after.stage = "generating_structure"
                     ELSE /\ after.progress = before.progress
                          /\ after.stage = before.stage]_vars

\* A task failed while its source code was generated, another while its
\* package configuration was built.
C20_Witness ==
    \E t, u \in DOMAIN router_tasks :
        /\ router_tasks[t].status = "failed"
        /\ router_tasks[t].progress = 50
        /\ router_tasks[t].stage = "generating_code"
        /\ router_tasks[t].error = Some("generate_source_code failed")
        /\ router_tasks[u].status = "failed"
        /\ router_tasks[u].progress = 30

\* The position of a background execution in its fixed order of phases.
PhaseRank(p) ==
    CASE p = "unused" -> 0
      [] p \in {"scheduled"} \cup MainAwaiting -> 1
      [] p = "analyze_idea" -> 2
      [] p = "generate_source_code" -> 3
      [] p = "generate_tests" -> 4
      [] p = "create_package" -> 5
      [] p = "cache_set" -> 6
      [] p = "done" -> 7

\* C21: within one task each phase is invoked at most once (the execution
\* only moves forward through its phases, and the subprocess of a task ends
\* once), and once the record is failed no later phase is invoked and no
\* further update is written to it: a failure is never retried.
C21_PhasesOnceNoRetry ==
    [][\A t \in Ids :
          /\ pc'[t] # pc[t] => PhaseRank(pc'[t]) > PhaseRank(pc[t])
          /\ proc[t] # None => proc'[t] = proc[t]
          /\ \A family \in Families :
               (t \in DOMAIN Store(family)
                  /\ Store(family)[t].status = "failed")
                 => /\ pc'[t] = pc[t]
                    /\ t \in DOMAIN Store(family)'
                         => Store(family)'[t] = Store(family)[t]]_vars

\* A generation of the router failed while its tests were generated and its
\* execution has ended; a task of main.py ended failed.
C21_Witness ==
    /\ \E t \in DOMAIN router_tasks :
         /\ router_tasks[t].status = "failed"
         /\ router_tasks[t].progress = 70
         /\ pc[t] = "done"
    /\ \E family \in MainFamilies : \E u \in DOMAIN Store(family) :
         Store(family)[u].status = "failed" /\ pc[u] = "done"

\* C22: a step of the background execution of task t, successful or failing,
\* modifies no record but t's own: every other record of every store, and
\* every other cache entry, is left as it was, and no record is created or
\* removed.
C22_OnlyOwnRecord ==
    [][\A t \in Ids :
          (pc[t] # "unused" /\ pc'[t] # pc[t])
            => /\ \A family \in Families :
                    /\ DOMAIN Store(family)' = DOMAIN Store(family)
                    /\ \A u \in DOMAIN Store(family) \ {t} :
                         Store(family)'[u] = Store(family)[u]
               /\ \A k \in DOMAIN cache \ {t} :
                    k \in DOMAIN cache' /\ cache'[k] = cache[k]]_vars

\* The execution of one task has ended while another task is in the middle
\* of its execution.
C22_Witness ==
    \E t, u \in Ids : \E family, g \in Families :
        /\ t # u
        /\ t \in DOMAIN Store(family) /\ pc[t] = "done"
        /\ Store(family)[t].status \in Terminal
        /\ u \in DOMAIN Store(g) /\ pc[u] \notin {"unused", "done"}
        /\ Store(g)[u].status \notin Terminal

\* C23: a status query for an id that is absent from the store returns,
\* whenever the cache holds an unexpired entry for the id (whatever its
\* value, an empty payload included), completed with progress 100, stage
\* done and the cached value as result, and not-found only when the id is in
\* neither; for an id in the store it returns the store's record.
C23_CacheFallback ==
    \A t \in Ids :
        LET response == router_get_generation_status(t)
            cached_result == cache_get(cache, t)
        IN IF t \in DOMAIN router_tasks
           THEN response = [code |-> 200] @@ router_tasks[t]
           ELSE IF cached_result # None
                THEN /\ response.code = 200
                     /\ response.status = "completed"
                     /\ response.progress = 100
                     /\ response.stage = "done"
                     /\ response.result = cached_result
                ELSE response = NotFound

\* The executable of analysis task t exited with code 0 and wrote output
\* that json.loads rejects, and the background execution of t has ended.
EndedUnparsable(t) ==
    /\ pc[t] = "done"
    /\ proc[t] # None
    /\ The(proc[t]).exc = ""
    /\ The(proc[t]).returncode = 0
    /\ The(proc[t]).stdout # ""
    /\ ~json_loads(The(proc[t]).stdout).ok

C25_SynchronousEndpointsCreateNoTask ==
    [][((\E t \in Ids :
            /\ responses[t] = None
            /\ responses'[t] # None
            /\ The(responses'[t]).endpoint = "optimize")
        \/ template_response' # template_response)
          => UNCHANGED <<generation_tasks, analysis_tasks, publish_tasks,
                         pc, proc, args>>]_vars

\* An optimization was answered after its executable failed or after it
\* ran, a template generation was answered, and a task is in a store.
C25_Witness ==
    /\ \E t \in Ids :
         /\ responses[t] # None
         /\ The(responses[t]).endpoint = "optimize"
         /\ The(responses[t]).code = 200
    /\ template_response # None
    /\ \E family \in MainFamilies : DOMAIN Store(family) # {}

\* The records of a store that are pending or running.
Active(tasks) == { t \in DOMAIN tasks : tasks[t].status \notin Terminal }

\* C26: the per-family counts of the health endpoint are active-task counts:
\* each equals the number of the family's records whose status is not
\* terminal, so completed and failed records waiting for a sweep are not
\* counted.
C26_HealthCountsActiveTasks ==
    /\ health_check.active_generations = Cardinality(Active(generation_tasks))
    /\ health_check.active_analyses = Cardinality(Active(analysis_tasks))
    /\ health_check.active_publishes = Cardinality(Active(publish_tasks))

\* C27: for each family the cleaned count the cleanup endpoint reports is
\* the number of records its sweep removed from the family's store, and
\* remaining is the size of the store after the sweep, whatever tasks are
\* being created or completed around the call.
C27_CleanupCountsAreExact ==
    [][cleanup_tasks =>
         /\ cleanup_response.cleaned =
              [generations |-> Cardinality(DOMAIN generation_tasks
                                             \ DOMAIN generation_tasks'),
               analyses |-> Cardinality(DOMAIN analysis_tasks
                                          \ DOMAIN analysis_tasks'),
               publishes |-> Cardinality(DOMAIN publish_tasks
                                           \ DOMAIN publish_tasks')]
         /\ cleanup_response.remaining =
              [generations |-> Cardinality(DOMAIN generation_tasks'),
               analyses |-> Cardinality(DOMAIN analysis_tasks'),
               publishes |-> Cardinality(DOMAIN publish_tasks')]]_vars

\* A sweep has removed a record while the executable of another task was
\* still running.
C27_Witness ==
    /\ \E family \in MainFamilies : Evicted(family) # {}
    /\ \E t \in Ids : pc[t] \in MainAwaiting /\ proc[t] = None

\* The family stores that hold id t.
StoresOf(t) == { family \in MainFamilies : t \in DOMAIN Store(family) }

\* C28: no id is a key of more than one family store, and an id that a
\* sweep has removed is never assigned to a later task: an id enters a store
\* only if no request has drawn it before.
C28_OneStoreAndNoReuse ==
    [][\A t \in Ids :
          /\ Cardinality(StoresOf(t)') <= 1
          /\ (StoresOf(t) = {} /\ StoresOf(t)' # {})
               => /\ responses[t] = None
                  /\ \A i \in DOMAIN returned : returned[i][2] # t]_vars

\* A sweep has removed a record and a later task is in a store.
C28_Witness ==
    \E t, u \in Ids : \E family \in MainFamilies :
        /\ t \in Evicted(family)
        /\ t < u
        /\ StoresOf(t) = {}
        /\ StoresOf(u) # {}

\* C29: a poll of a generation task never observes a half-applied
\* completion: whenever the status endpoint returns completed, it returns
\* completed_at and the final file list (the files the executable left in
\* the output directory), never a list that is yet to be filled.
C29_CompletionIsAtomic ==
    \A t \in DOMAIN generation_tasks :
        LET response == get_generation_status(t) IN
        response.status = "completed" =>
            /\ response.completed_at # None
            /\ generation_tasks[t].files # None
            /\ proc[t] # None
            /\ response.files = The(proc[t]).written

\* A client has polled a generation task and seen it completed, with a file
\* list that is not empty.
C29_Witness ==
    /\ lastPoll # None
    /\ The(lastPoll).family = "generation"
    /\ The(lastPoll).status = Some("completed")
    /\ The(lastPoll).id \in DOMAIN generation_tasks
    /\ get_generation_status(The(lastPoll).id).files # <<>>

\* The fixed sequence of (progress, stage) pairs of the progress-reporting
\* generation path.
ProgressStages ==
    << <<0, "initialization">>, <<10, "analyzing_requirements">>,
       <<30, "generating_structure">>, <<50, "generating_code">>,
       <<70, "generating_tests">>, <<90, "finalizing_package">>,
       <<100, "done">> >>

\* C30: in every state the (progress, stage) of a record of the
\* progress-reporting path is one of the pairs of the fixed sequence, and
\* the record's status is completed if and only if the pair is (100, done).
C30_PairsAndCompletion ==
    \A t \in DOMAIN router_tasks :
        LET task == router_tasks[t] IN
        /\ <<task.progress, task.stage>> \in Range(ProgressStages)
        /\ task.status = "completed"
             <=> <<task.progress, task.stage>> = <<100, "done">>

=============================================================================
